---------------------------- MODULE Spec2Model ----------------------------
(***************************************************************************)
(* A model of elixir, the compiler that turns a directory of Lua scripts   *)
(* and ROBLOX model files into one .rbxmx document.                        *)
(*                                                                         *)
(* Text is a sequence of characters.  A character is a one-element TLA+    *)
(* string, except that a few words the code looks for ("return", "Name",   *)
(* "ClassName", ...) are single characters of the alphabet: no other       *)
(* characters of the alphabet spell them, so a regular expression over the *)
(* real text and the same expression over these sequences agree.           *)
(*                                                                         *)
(* Five specifications share the variables:                                *)
(*   SpecModule   get_script_type on every short text                      *)
(*   SpecScript   ScriptElement and the two processors' process_script     *)
(*   SpecElement  the constructors and PropertyElement's add, get and set  *)
(*   SpecWalk     the closure recurse() of ModelCompiler._create_hierarchy,*)
(*                the writing of the document, and the same a second time  *)
(*   SpecCompile  ModelCompiler.compile()                                  *)
(***************************************************************************)
EXTENDS Integers, Sequences, FiniteSets, TLC

VARIABLES
    pc,        \* where the modelled call stands
    content,   \* the Lua source text handed to the call
    fname,     \* the name handed to process_script / ScriptElement
    proc,      \* the processor in use: "Base" or "Nevermore"
    script,    \* the ScriptElement built so far, or NoScript
    stype,     \* what get_script_type returned, or None
    calls,     \* use_embedded_properties calls made after construction
    last,      \* the last add, get or set call and what it returned
    stack,     \* recurse()'s activation records, innermost last
    elems,     \* the elements appended beneath root_xml, in append order
    visited,   \* the entries the walk has taken from os.listdir
    tree,      \* what os.listdir returned, call by call, when first asked
    reads,     \* the os.listdir calls of the walk under way
    run,       \* 1 in the first compile of the tree, 2 in the one after it
    previous,  \* what the first compile ended with, or NoRun
    error,     \* the exception that ended the call, or "none"
    dest,      \* the contents of the destination file
    destBefore,\* the contents of the destination file before the call
    destDir,   \* whether the destination's parent directory exists
    listing    \* the entries of the source directory compile() is given

vars == <<pc, content, fname, proc, script, stype, calls, last, stack, elems,
          visited, tree, reads, run, previous, error, dest, destBefore,
          destDir, listing>>

scriptVars == <<content, fname, script, stype, calls, last>>
walkVars == <<stack, elems, visited, tree, reads, run, previous>>
compileVars == <<dest, destBefore, destDir, listing>>

-----------------------------------------------------------------------------
(* Bounds of the model                                                     *)

\* The longest text SpecModule hands to get_script_type.
MaxLen == 5

\* The most lines a source of SpecScript has.
MaxLines == 3

\* The most use_embedded_properties calls after a script is built.
MaxCalls == 2

\* The most entries one walk takes from os.listdir, over all directories.
MaxEntries == 4

\* The most properties add() may bring an element to.
MaxProps == 5

-----------------------------------------------------------------------------
(* Characters and text                                                     *)

SP == " "
NL == "\n"

\* Python's None, where a text is expected.
None == <<"<None>">>

\* \s of Python's re, on the characters of the alphabet.
IsSpace(c) == c \in {SP, NL}

\* Characters that are neither \w nor \s.
Punct == {"-", ":", "{", "}", "'"}

\* \w of Python's re: every character of the alphabet that is no space and
\* no punctuation is a letter or a word made of letters.
IsWord(c) == ~IsSpace(c) /\ c \notin Punct

\* "." of Python's re without DOTALL.
IsDot(c) == c # NL

Str(w) == <<w>>

RECURSIVE Join(_, _)
\* sep.join(lines)
Join(lines, sep) ==
    IF lines = <<>> THEN <<>>
    ELSE IF Len(lines) = 1 THEN lines[1]
    ELSE lines[1] \o sep \o Join(Tail(lines), sep)

\* The index of the first NL of s at or after p, or Len(s) + 1.
RECURSIVE Eol(_, _)
Eol(s, p) ==
    IF p > Len(s) THEN Len(s) + 1
    ELSE IF s[p] = NL THEN p
    ELSE Eol(s, p + 1)

RECURSIVE splitlines(_)
\* str.splitlines(): the lines without their line breaks; a final line break
\* does not open another, empty, line.
splitlines(s) ==
    IF s = <<>> THEN <<>>
    ELSE LET e == Eol(s, 1)
         IN  <<SubSeq(s, 1, e - 1)>> \o splitlines(SubSeq(s, e + 1, Len(s)))


-----------------------------------------------------------------------------
(* rbxmx.py: helpers                                                       *)

\* re.match(r"^--\s+", line): two dashes and at least one space.
is_lua_comment(line) ==
    /\ Len(line) >= 3
    /\ line[1] = "-"
    /\ line[2] = "-"
    /\ IsSpace(line[3])

\* str(b) of a Python bool.
PyStr(b) == IF b THEN "True" ELSE "False"

\* str.lower() on the words str(b) yields.
PyLower(w) ==
    CASE w = "True" -> "true"
      [] w = "False" -> "false"
      [] OTHER -> w

\* _convert_bool(b): str(b).lower()
convert_bool(b) == Str(PyLower(PyStr(b)))

\* A Python object handed over as `text`: a bool or a str (None included).
PyBool(b) == [type |-> "bool", bool |-> b, str |-> <<>>]
PyText(s) == [type |-> "str", bool |-> FALSE, str |-> s]

\* _sanitize(content): a bool is converted, anything else goes through.
sanitize(c) == IF c.type = "bool" THEN convert_bool(c.bool) ELSE c.str

\* The rest of r"return\s+.*(\s+)?$" from position p of s on, as the
\* automaton of the expression: q is the part being matched ("s1": the first
\* \s of \s+, "s": more of \s+, "dot": .*, "s2": (\s+)? and $).  $ holds at
\* the end of the text and before a line break that ends the text.
RECURSIVE MatchReturnTail(_, _, _)
MatchReturnTail(s, p, q) ==
    LET more == p <= Len(s)
    IN  CASE q = "s1" ->
               more /\ IsSpace(s[p]) /\ MatchReturnTail(s, p + 1, "s")
          [] q = "s" ->
               \/ more /\ IsSpace(s[p]) /\ MatchReturnTail(s, p + 1, "s")
               \/ MatchReturnTail(s, p, "dot")
          [] q = "dot" ->
               \/ more /\ IsDot(s[p]) /\ MatchReturnTail(s, p + 1, "dot")
               \/ MatchReturnTail(s, p, "s2")
          [] OTHER ->
               \/ p = Len(s) + 1
               \/ p = Len(s) /\ s[p] = NL
               \/ more /\ IsSpace(s[p]) /\ MatchReturnTail(s, p + 1, "s2")

\* is_module(content): re.search finds the expression at some "return".
is_module(s) ==
    \E i \in 1..Len(s) : s[i] = "return" /\ MatchReturnTail(s, i + 1, "s1")

\* get_script_type(content)
get_script_type(s) == IF is_module(s) THEN Str("ModuleScript") ELSE Str("Script")

-----------------------------------------------------------------------------
(* rbxmx.py: PropertyElement, InstanceElement, ScriptElement               *)
(* An element is [class, props]; props is the <Properties> element's       *)
(* children in document order, each [tag, name, text].                     *)

\* PropertyElement.add(tag, name, text): a new last child.
PropertyElement_add(props, tag, name, text) ==
    Append(props, [tag |-> tag, name |-> name, text |-> sanitize(text)])

\* PropertyElement.get(name): find() gives the first child of that name, as
\* its index, or 0 for None.
PropertyElement_get(props, name) ==
    IF \E i \in 1..Len(props) : props[i].name = name
    THEN CHOOSE i \in 1..Len(props) :
            /\ props[i].name = name
            /\ \A j \in 1..(i - 1) : props[j].name # name
    ELSE 0

\* Whether "*[@name='{}']".format(name) is a path find() refuses: an
\* apostrophe in name closes the quoted value early.  (True of a name with
\* one apostrophe, the only such names the model has.)
InvalidPredicate(name) == \E i \in 1..Len(name) : name[i] = "'"

\* set() that adds the property when the element has none of that name.
PropertyElement_setOrAdd(props, name, new_value) ==
    LET i == PropertyElement_get(props, name)
    IN  IF i # 0 THEN [props EXCEPT ![i].text = new_value]
        ELSE Append(props, [tag |-> "string", name |-> name, text |-> new_value])

\* PropertyElement.set(name, new_value): the text goes in as given.
PropertyElement_set(props, name, new_value) ==
    LET i == PropertyElement_get(props, name)
    IN  IF i # 0 THEN [props EXCEPT ![i].text = new_value] ELSE props

\* InstanceElement.__init__(class_name, name): `name or class_name`.
InstanceElement(class_name, name) ==
    [class |-> class_name,
     props |-> PropertyElement_add(<<>>, "string", Str("Name"),
                   PyText(IF name = None \/ name = <<>> THEN class_name
                          ELSE name))]

\* ContainerElement.__init__(class_name="Folder", name)
ContainerElement(name) == InstanceElement(Str("Folder"), name)

\* ScriptElement.__init__(class_name, name, source, disabled)
ScriptElement(class_name, name, source, disabled) ==
    LET base == InstanceElement(class_name, name)
        withSource == PropertyElement_add(base.props, "ProtectedString",
                                          Str("Source"), PyText(source))
    IN  [base EXCEPT !.props =
            PropertyElement_add(withSource, "bool", Str("Disabled"),
                                PyBool(disabled))]

\* The text of the first property called name (self.name.text and the like).
PropText(el, name) == el.props[PropertyElement_get(el.props, Str(name))].text

\* The loop without its `break`: every comment line of the source is
\* collected, wherever it stands.
RECURSIVE CommentLinesAll(_, _, _)
CommentLinesAll(lines, i, found_first_comment) ==
    IF i > Len(lines) THEN <<>>
    ELSE IF is_lua_comment(lines[i])
         THEN <<lines[i]>> \o CommentLinesAll(lines, i + 1, TRUE)
         ELSE CommentLinesAll(lines, i + 1, found_first_comment)

\* The loop of get_first_comment over the lines from i on: comment lines
\* are collected; a line that is none ends the loop once one was found.
RECURSIVE CommentLines(_, _, _)
CommentLines(lines, i, found_first_comment) ==
    IF i > Len(lines) THEN <<>>
    ELSE IF is_lua_comment(lines[i])
         THEN <<lines[i]>> \o CommentLines(lines, i + 1, TRUE)
         ELSE IF found_first_comment THEN <<>>
              ELSE CommentLines(lines, i + 1, FALSE)

\* ScriptElement.get_first_comment(): None without source or comment.
get_first_comment(el) ==
    LET source == PropText(el, "Source")
    IN  IF source = None \/ source = <<>> THEN None
        ELSE LET comment_lines == CommentLines(splitlines(source), 1, FALSE)
             IN  IF comment_lines = <<>> THEN None
                 ELSE Join(comment_lines, <<NL>>)


-----------------------------------------------------------------------------
(* rbxmx.py: embedded properties                                           *)

\* The end of the longest run of characters satisfying \w (word = TRUE) or
\* \s (word = FALSE) that starts at p: the index after its last character.
RECURSIVE RunEnd(_, _, _)
RunEnd(s, p, word) ==
    IF p <= Len(s) /\ (IF word THEN IsWord(s[p]) ELSE IsSpace(s[p]))
    THEN RunEnd(s, p + 1, word)
    ELSE p

\* Where `(?P<value>.+)` starts when `\s+` began at lo and may end no later
\* than hi - 1: \s+ is greedy and gives back one character at a time until
\* "." finds a character that is no line break.  0 when it never does.
RECURSIVE ValueStart(_, _, _)
ValueStart(s, lo, hi) ==
    IF hi <= lo THEN 0
    ELSE IF hi <= Len(s) /\ IsDot(s[hi]) THEN hi
    ELSE ValueStart(s, lo, hi - 1)

\* r"(?P<name>\w+):\s+(?P<value>.+)" matched at position i of s:
\* [ok, name, value, end], end being the index after the match.
PropertyMatchAt(s, i) ==
    LET j == RunEnd(s, i, TRUE)
        k == RunEnd(s, j + 1, FALSE)
        m == ValueStart(s, j + 1, k)
        fail == [ok |-> FALSE, name |-> <<>>, value |-> <<>>, end |-> i]
    IN  IF j = i \/ j > Len(s) THEN fail
        ELSE IF s[j] # ":" \/ m = 0 THEN fail
        ELSE [ok |-> TRUE, name |-> SubSeq(s, i, j - 1),
              value |-> SubSeq(s, m, Eol(s, m) - 1), end |-> Eol(s, m)]

\* property_list[name] = value on a dict kept as a sequence of pairs: a key
\* already there keeps its place and takes the new value.
DictPut(d, name, value) ==
    IF \E i \in 1..Len(d) : d[i].name = name
    THEN [i \in 1..Len(d) |->
            IF d[i].name = name THEN [name |-> name, value |-> value] ELSE d[i]]
    ELSE Append(d, [name |-> name, value |-> value])

\* property_pattern.finditer(comment) from position p on, folded into the
\* dict d: the leftmost match, then on from its end.
RECURSIVE FindProperties(_, _, _)
FindProperties(s, p, d) ==
    IF p > Len(s) THEN d
    ELSE LET r == PropertyMatchAt(s, p)
         IN  IF r.ok THEN FindProperties(s, r.end, DictPut(d, r.name, r.value))
             ELSE FindProperties(s, p + 1, d)

\* ScriptElement.get_embedded_properties(): the dict, <<>> standing for
\* both None and the empty dict (use_embedded_properties tells neither apart).
get_embedded_properties(el) ==
    LET comment == get_first_comment(el)
    IN  IF comment = None THEN <<>> ELSE FindProperties(comment, 1, <<>>)

\* The loop of use_embedded_properties over the items from i on.
RECURSIVE ApplyProperties(_, _, _)
ApplyProperties(el, properties, i) ==
    IF i > Len(properties) THEN el
    ELSE LET prop_name == properties[i].name
             prop_value == properties[i].value
         IN  ApplyProperties(
                 IF prop_name = Str("ClassName")
                 THEN [el EXCEPT !.class = prop_value]
                 ELSE [el EXCEPT !.props =
                          PropertyElement_set(el.props, prop_name, prop_value)],
                 properties, i + 1)

\* ScriptElement.use_embedded_properties()
use_embedded_properties(el) ==
    ApplyProperties(el, get_embedded_properties(el), 1)

-----------------------------------------------------------------------------
(* processors.py                                                           *)

\* BaseProcessor.process_folder(name)
process_folder(name) == ContainerElement(name)

\* BaseProcessor.process_script(name, content)
BaseProcessor_process_script(name, source) ==
    LET class_name == get_script_type(source)
    IN  use_embedded_properties(ScriptElement(class_name, name, source, FALSE))

\* The name of the script that loads Nevermore.
EngineLoader == Str("NevermoreEngineLoader")

\* A Nevermore processor that also turns every script but the loader into a
\* ModuleScript.
NevermoreProcessor_coercing(name, source) ==
    LET el == BaseProcessor_process_script(name, source)
        i == PropertyElement_get(el.props, Str("Disabled"))
    IN  IF name # EngineLoader
        THEN [el EXCEPT !.class = Str("ModuleScript"),
                        !.props[i].text = Str("true")]
        ELSE el

\* A Nevermore processor that disables first, by the name and the type the
\* source has, and applies the embedded properties after.
NevermoreProcessor_disablingFirst(name, source) ==
    LET class_name == get_script_type(source)
        disabled == name # EngineLoader /\ class_name # Str("ModuleScript")
    IN  use_embedded_properties(ScriptElement(class_name, name, source, disabled))

\* NevermoreProcessor.process_script(name, content)
NevermoreProcessor_process_script(name, source) ==
    LET el == BaseProcessor_process_script(name, source)
        is_engine_loader == name = EngineLoader
        is_module_class == el.class = Str("ModuleScript")
        i == PropertyElement_get(el.props, Str("Disabled"))
    IN  IF ~is_engine_loader /\ ~is_module_class
        THEN [el EXCEPT !.props[i].text = Str("true")]
        ELSE el

\* process_script of the processor p.
process_script(p, name, source) ==
    IF p = "Nevermore" THEN NevermoreProcessor_process_script(name, source)
    ELSE BaseProcessor_process_script(name, source)


-----------------------------------------------------------------------------
(* Values of the variables a specification does not use                    *)

NoScript == [class |-> None, props |-> <<>>]
NoCall == [op |-> "none", name |-> <<>>, value |-> <<>>, result |-> 0]
Absent == <<"<absent>">>
NoRun == [proc |-> "none", error |-> "none", dest |-> <<>>]

ScriptIdle ==
    /\ content = <<>>
    /\ fname = <<>>
    /\ script = NoScript
    /\ stype = None
    /\ calls = 0
    /\ last = NoCall

WalkIdle ==
    /\ stack = <<>>
    /\ elems = <<>>
    /\ visited = <<>>
    /\ tree = <<>>
    /\ reads = 0
    /\ run = 1
    /\ previous = NoRun

CompileIdle ==
    /\ dest = Absent
    /\ destBefore = Absent
    /\ destDir = TRUE
    /\ listing = <<>>

-----------------------------------------------------------------------------
(* SpecModule: get_script_type(content) on every text of at most MaxLen    *)
(* characters                                                              *)

Chars == {"return", SP, NL, "x", "{", "}"}

Texts == UNION {[1..n -> Chars] : n \in 0..MaxLen}

InitModule ==
    /\ pc = "start"
    /\ content \in Texts
    /\ fname = <<>>
    /\ script = NoScript
    /\ stype = None
    /\ calls = 0
    /\ last = NoCall
    /\ proc = "Base"
    /\ error = "none"
    /\ WalkIdle
    /\ CompileIdle

GetScriptType ==
    /\ pc = "start"
    /\ stype' = get_script_type(content)
    /\ pc' = "returned"
    /\ UNCHANGED <<content, fname, proc, script, calls, last, error>>
    /\ UNCHANGED walkVars
    /\ UNCHANGED compileVars

NextModule == GetScriptType

SpecModule == InitModule /\ [][NextModule]_vars

-----------------------------------------------------------------------------
(* SpecScript: ScriptElement(...) and process_script(name, content) of     *)
(* both processors, then use_embedded_properties() again                   *)

Comment(words) == <<"-", "-", SP>> \o words

\* The lines sources are made of.
LineSet ==
    { <<>>,
      Comment(<<"Name", ":", SP, "N">>),
      Comment(<<"ClassName", ":", SP, "LocalScript">>),
      Comment(<<"Disabled", ":", SP, "true">>),
      Comment(<<"Disabled", ":", SP, "yes">>),
      Comment(<<"Foo", ":">>),
      Comment(<<"Source", ":", SP, "x">>),
      Comment(<<"Source", ":", SP>> \o Comment(<<"Name", ":", SP, "N">>)),
      <<"return", SP, "x">>,
      <<"x">> }

Sources == {Join(ls, <<NL>>) : ls \in UNION {[1..n -> LineSet] : n \in 0..MaxLines}}

Names == {Str("f"), EngineLoader}

ClassNames == {Str("Script"), Str("LocalScript")}

Processors == {"Base", "Nevermore"}

InitScript ==
    /\ pc = "start"
    /\ content \in Sources
    /\ fname = <<>>
    /\ script = NoScript
    /\ stype = None
    /\ calls = 0
    /\ last = NoCall
    /\ proc = "Base"
    /\ error = "none"
    /\ WalkIdle
    /\ CompileIdle

\* rbxmx.ScriptElement(class_name, name=name, source=content, disabled=d)
NewScriptElement(class_name, name, d) ==
    /\ pc = "start"
    /\ fname' = name
    /\ script' = ScriptElement(class_name, name, content, d)
    /\ pc' = "built"
    /\ UNCHANGED <<content, proc, stype, calls, last, error>>
    /\ UNCHANGED walkVars
    /\ UNCHANGED compileVars

\* p().process_script(name, content)
ProcessScript(p, name) ==
    /\ pc = "start"
    /\ proc' = p
    /\ fname' = name
    /\ script' = process_script(p, name, content)
    /\ pc' = "processed"
    /\ UNCHANGED <<content, stype, calls, last, error>>
    /\ UNCHANGED walkVars
    /\ UNCHANGED compileVars

\* script.use_embedded_properties() on the element at hand
UseEmbeddedProperties ==
    /\ pc \in {"built", "processed"}
    /\ calls < MaxCalls
    /\ script' = use_embedded_properties(script)
    /\ calls' = calls + 1
    /\ UNCHANGED <<pc, content, fname, proc, stype, last, error>>
    /\ UNCHANGED walkVars
    /\ UNCHANGED compileVars

NextScript ==
    \/ \E c \in ClassNames, n \in Names, d \in BOOLEAN : NewScriptElement(c, n, d)
    \/ \E p \in Processors, n \in Names : ProcessScript(p, n)
    \/ UseEmbeddedProperties

SpecScript == InitScript /\ [][NextScript]_vars

-----------------------------------------------------------------------------
(* SpecElement: an InstanceElement, ContainerElement or ScriptElement is   *)
(* built, then its properties are added to, looked up and set, and a       *)
(* script's embedded properties are applied                                *)

\* The sources of the scripts: none, one property the script has, and a key
\* that names no property.
ElementSources ==
    { <<>>,
      Comment(<<"Name", ":", SP, "N">>),
      Join(<<Comment(<<"Foo", ":">>), Comment(<<"Name", ":", SP, "N">>)>>,
           <<NL>>) }

\* The `name` argument of the constructors: left out, empty, or a name.
ElementNames == {None, <<>>, Str("f")}

\* The names add() is given, and those get() and set() are asked for.
AddedNames == {Str("P")}
AskedNames == {Str("Name"), Str("P"), Str("Foo"), <<"x", "'">>}

Values == {Str("v1"), Str("v2")}

InitElement ==
    /\ pc = "start"
    /\ content \in ElementSources
    /\ fname = <<>>
    /\ script = NoScript
    /\ stype = None
    /\ calls = 0
    /\ last = NoCall
    /\ proc = "Base"
    /\ error = "none"
    /\ WalkIdle
    /\ CompileIdle

\* rbxmx.InstanceElement(class_name, name)
NewInstanceElement(class_name, name) ==
    /\ pc = "start"
    /\ fname' = name
    /\ script' = InstanceElement(class_name, name)
    /\ pc' = "built"
    /\ UNCHANGED <<content, proc, stype, calls, last, error>>
    /\ UNCHANGED walkVars
    /\ UNCHANGED compileVars

\* rbxmx.ContainerElement(name=name)
NewContainerElement(name) ==
    /\ pc = "start"
    /\ fname' = name
    /\ script' = ContainerElement(name)
    /\ pc' = "built"
    /\ UNCHANGED <<content, proc, stype, calls, last, error>>
    /\ UNCHANGED walkVars
    /\ UNCHANGED compileVars

\* element.properties.add(tag, name, text)
Add(tag, name, text) ==
    /\ pc = "built"
    /\ Len(script.props) < MaxProps
    /\ script' = [script EXCEPT !.props = PropertyElement_add(@, tag, name, text)]
    /\ last' = [op |-> "add", name |-> name, value |-> sanitize(text),
                result |-> Len(script.props) + 1]
    /\ UNCHANGED <<pc, content, fname, proc, stype, calls, error>>
    /\ UNCHANGED walkVars
    /\ UNCHANGED compileVars

\* element.properties.get(name): the property found (0: None), or the
\* SyntaxError of find().
Get(name) ==
    /\ pc = "built"
    /\ IF InvalidPredicate(name)
       THEN /\ pc' = "raised"
            /\ error' = "SyntaxError"
            /\ last' = [op |-> "get", name |-> name, value |-> <<>>,
                        result |-> 0]
       ELSE /\ last' = [op |-> "get", name |-> name, value |-> <<>>,
                        result |-> PropertyElement_get(script.props, name)]
            /\ UNCHANGED <<pc, error>>
    /\ UNCHANGED <<content, fname, proc, script, stype, calls>>
    /\ UNCHANGED walkVars
    /\ UNCHANGED compileVars

\* element.properties.set(name, new_value): get(), then the text is set.
Set(name, new_value) ==
    /\ pc = "built"
    /\ last' = [op |-> "set", name |-> name, value |-> new_value, result |-> 0]
    /\ IF InvalidPredicate(name)
       THEN /\ pc' = "raised"
            /\ error' = "SyntaxError"
            /\ UNCHANGED script
       ELSE /\ script' = [script EXCEPT
                             !.props = PropertyElement_set(@, name, new_value)]
            /\ UNCHANGED <<pc, error>>
    /\ UNCHANGED <<content, fname, proc, stype, calls>>
    /\ UNCHANGED walkVars
    /\ UNCHANGED compileVars

\* Whether the element at hand is a ScriptElement: it has a Source.
IsScriptElement == PropertyElement_get(script.props, Str("Source")) # 0

NextElement ==
    \/ \E c \in ClassNames \cup {Str("Folder")}, n \in ElementNames :
          NewInstanceElement(c, n)
    \/ \E n \in ElementNames : NewContainerElement(n)
    \/ \E c \in ClassNames, n \in ElementNames : NewScriptElement(c, n, FALSE)
    \/ \E n \in AddedNames, v \in Values : Add("string", n, PyText(v))
    \/ \E n \in AskedNames : Get(n)
    \/ \E n \in AskedNames, v \in Values : Set(n, v)
    \/ IsScriptElement /\ UseEmbeddedProperties

SpecElement == InitElement /\ [][NextElement]_vars


-----------------------------------------------------------------------------
(* The source tree                                                         *)
(* An entry is what os.listdir, os.path.isdir / isfile, open and read give *)
(* for one item: its file name, its kind, whether it can be read, and its  *)
(* contents, a Lua text or a model document.  A model document is given    *)
(* as ElementTree.XML finds it: well formed or not, and the children of    *)
(* its <roblox> root.                                                      *)

NoDoc == [wellformed |-> FALSE, children |-> <<>>]

\* An <Item class="Folder"> holding one nested Item, and an <External>.
ModelItem ==
    [tag |-> "Item", class |-> Str("Folder"),
     props |-> <<[tag |-> "string", name |-> Str("Name"), text |-> Str("M")]>>,
     nested |-> 1]
ModelExternal ==
    [tag |-> "External", class |-> None, props |-> <<>>, nested |-> 0]

\* An <Item class="Script"> with its Disabled, Name and Source, the source
\* opening with a comment that names a property.
ModelScript ==
    [tag |-> "Item", class |-> Str("Script"),
     props |-> <<[tag |-> "bool", name |-> Str("Disabled"), text |-> Str("false")],
                 [tag |-> "string", name |-> Str("Name"), text |-> Str("Script")],
                 [tag |-> "ProtectedString", name |-> Str("Source"),
                  text |-> Comment(<<"Name", ":", SP, "N">>)]>>,
     nested |-> 0]

Dir(name) ==
    [name |-> name, kind |-> "dir", readable |-> TRUE, text |-> <<>>,
     doc |-> NoDoc]
LuaFile(name, text, readable) ==
    [name |-> name, kind |-> "file", readable |-> readable, text |-> text,
     doc |-> NoDoc]
ModelFile(name, wellformed, children) ==
    [name |-> name, kind |-> "file", readable |-> TRUE, text |-> <<>>,
     doc |-> [wellformed |-> wellformed, children |-> children]]

EntrySet ==
    { Dir(<<"d">>),
      Dir(<<"p", ".", "q">>),
      LuaFile(<<"a", ".", "lua">>, <<"return", SP, "x">>, TRUE),
      LuaFile(<<"b", ".", "lua">>, <<"x">>, TRUE),
      LuaFile(<<"u", ".", "lua">>, <<"x">>, FALSE),
      LuaFile(<<"notes", ".", "txt">>, <<"x">>, TRUE),
      ModelFile(<<"m", ".", "rbxmx">>, TRUE,
                <<ModelItem, ModelExternal, ModelScript>>),
      ModelFile(<<"e", ".", "rbxmx">>, TRUE, <<>>),
      ModelFile(<<"bad", ".", "rbxmx">>, FALSE, <<>>) }

\* What os.listdir may return: no name twice, n entries.
ListingsOfLen ==
    [n \in 0..MaxEntries |->
        {l \in [1..n -> EntrySet] :
            \A i, j \in 1..n : i # j => l[i].name # l[j].name}]

Listings(most) == UNION {ListingsOfLen[n] : n \in 0..most}

\* The index of the last "." of name that follows a character other than
\* ".", or 0: where os.path.splitext cuts.
RECURSIVE ExtStart(_, _)
ExtStart(name, i) ==
    IF i <= 1 THEN 0
    ELSE IF name[i] = "." /\ (\E j \in 1..(i - 1) : name[j] # ".") THEN i
    ELSE ExtStart(name, i - 1)

\* os.path.splitext(os.path.basename(path)): <<name, extension>>
splitext(name) ==
    LET i == ExtStart(name, Len(name))
    IN  IF i = 0 THEN <<name, <<>>>>
        ELSE <<SubSeq(name, 1, i - 1), SubSeq(name, i, Len(name))>>

-----------------------------------------------------------------------------
(* compilers.py: the walk                                                  *)
(* elems holds every element appended beneath root_xml, in the order of    *)
(* the append calls; parent is the index of the element appended to, 0     *)
(* for root_xml.  The children of an element are the elements naming it    *)
(* as parent, in that order.                                               *)

\* Every element appended to root_xml itself, whatever the hierarchy at hand.
ChildOfRoot(hierarchy, e) ==
    [parent |-> 0, tag |-> e.tag, class |-> e.class,
     props |-> e.props, nested |-> e.nested]

Child(hierarchy, e) ==
    [parent |-> hierarchy, tag |-> e.tag, class |-> e.class,
     props |-> e.props, nested |-> e.nested]

\* The XML of an InstanceElement: an <Item> with its Properties.
ItemXml(el) ==
    [tag |-> "Item", class |-> el.class, props |-> el.props, nested |-> 0]

\* The <roblox> root of a model, as the one thing it is.
RootXml(doc) ==
    [tag |-> "roblox", class |-> None, props |-> <<>>,
     nested |-> Len(doc.children)]

\* hierarchy.append(xml)
AppendXml(es, hierarchy, xml) == Append(es, Child(hierarchy, xml))

\* The model's root itself appended, as for any other element.
ImportModelWithRoot(es, hierarchy, doc) == AppendXml(es, hierarchy, RootXml(doc))

\* The scripts among a model's children treated as the scripts of .lua
\* files are: their embedded properties applied, and Nevermore's disabling.
ImportModelProcessed(es, hierarchy, doc) ==
    es \o [i \in 1..Len(doc.children) |->
             LET kid == doc.children[i]
                 el == use_embedded_properties(kid)
                 d == PropertyElement_get(el.props, Str("Disabled"))
             IN  IF kid.tag = "Item" /\ kid.class = Str("Script")
                 THEN Child(hierarchy,
                            IF proc = "Nevermore"
                            THEN [el EXCEPT !.props[d].text = Str("true")]
                            ELSE el)
                 ELSE Child(hierarchy, kid)]

\* ModelCompiler._import_model(hierarchy, model_xml): every child of the
\* model's root is appended, the root is not.
ImportModel(es, hierarchy, doc) ==
    es \o [i \in 1..Len(doc.children) |-> Child(hierarchy, doc.children[i])]

\* The children of element h (0: root_xml), in order.
RECURSIVE ChildrenFrom(_, _, _)
ChildrenFrom(es, h, i) ==
    IF i > Len(es) THEN <<>>
    ELSE IF es[i].parent = h THEN <<es[i]>> \o ChildrenFrom(es, h, i + 1)
    ELSE ChildrenFrom(es, h, i + 1)

ChildrenOf(es, h) == ChildrenFrom(es, h, 1)

\* The activation of recurse() at work and the item its loop is at.
Top == stack[Len(stack)]
HasItem == stack # <<>> /\ Top.i <= Len(Top.items)
Item == Top.items[Top.i]

\* The entries os.listdir has returned and the loops have yet to take.
RECURSIVE Pending(_)
Pending(st) ==
    IF st = <<>> THEN 0
    ELSE (Len(st[Len(st)].items) - st[Len(st)].i + 1)
         + Pending(SubSeq(st, 1, Len(st) - 1))

\* The loop takes its next item.
Advance(st) == [st EXCEPT ![Len(st)].i = @ + 1]

Frame(hierarchy, items) == [hierarchy |-> hierarchy, items |-> items, i |-> 1]

\* What the next os.listdir call may return: for a directory listed before,
\* what it returned then; for one listed the first time, any listing of at
\* most `most` entries.
listdir(most) ==
    IF reads < Len(tree) THEN {tree[reads + 1]} ELSE Listings(most)

\* The listings os.listdir has returned, l being the latest.
Listed(l) == IF reads < Len(tree) THEN tree ELSE Append(tree, l)

\* The root of the call before, kept with the children it has.
KeptRoot(es) == es

\* `root_xml = ...` of _create_hierarchy: each call makes a new root, which
\* has no children.  es: the children of the root of the call before.
NewRoot(es) == <<>>

\* The document tree.write(f) puts into the file, root_xml holding es.
Document(es) == <<[root |-> "root_xml", children |-> es]>>

\* The walk starts with the destination opened by _write_model, and so
\* created or cut to nothing.
InitWalk ==
    /\ pc = "walk"
    /\ proc \in Processors
    /\ \E l \in Listings(MaxEntries) :
          /\ stack = <<Frame(0, l)>>
          /\ tree = <<l>>
    /\ reads = 1
    /\ run = 1
    /\ previous = NoRun
    /\ elems = NewRoot(<<>>)
    /\ visited = <<>>
    /\ error = "none"
    /\ ScriptIdle
    /\ dest = <<>>
    /\ destBefore = Absent
    /\ destDir = TRUE
    /\ listing = <<>>

\* A directory: process_folder, append, recurse into it.
WalkFolder ==
    /\ pc = "walk"
    /\ HasItem
    /\ Item.kind = "dir"
    /\ LET name == splitext(Item.name)[1]
           xml == ItemXml(process_folder(name))
       IN  /\ elems' = AppendXml(elems, Top.hierarchy, xml)
           /\ visited' = Append(visited, Item)
           /\ \E l \in listdir(MaxEntries - Len(visited) - Pending(stack)) :
                 /\ stack' = Append(Advance(stack), Frame(Len(elems) + 1, l))
                 /\ tree' = Listed(l)
    /\ reads' = reads + 1
    /\ UNCHANGED <<pc, proc, error, run, previous>>
    /\ UNCHANGED scriptVars
    /\ UNCHANGED compileVars

\* A .lua file: process_script, append.
WalkScript ==
    /\ pc = "walk"
    /\ HasItem
    /\ Item.kind = "file"
    /\ Item.readable
    /\ splitext(Item.name)[2] = <<".", "lua">>
    /\ LET name == splitext(Item.name)[1]
           xml == ItemXml(process_script(proc, name, Item.text))
       IN  elems' = AppendXml(elems, Top.hierarchy, xml)
    /\ visited' = Append(visited, Item)
    /\ stack' = Advance(stack)
    /\ UNCHANGED <<pc, proc, error, tree, reads, run, previous>>
    /\ UNCHANGED scriptVars
    /\ UNCHANGED compileVars

\* A .rbxmx file that parses: process_model, _import_model.
WalkModel ==
    /\ pc = "walk"
    /\ HasItem
    /\ Item.kind = "file"
    /\ Item.readable
    /\ splitext(Item.name)[2] = <<".", "rbxmx">>
    /\ Item.doc.wellformed
    /\ elems' = ImportModel(elems, Top.hierarchy, Item.doc)
    /\ visited' = Append(visited, Item)
    /\ stack' = Advance(stack)
    /\ UNCHANGED <<pc, proc, error, tree, reads, run, previous>>
    /\ UNCHANGED scriptVars
    /\ UNCHANGED compileVars

\* A .rbxmx file that does not parse, passed over: the walk goes on with
\* the next entry.
WalkModelMalformedSkipped ==
    /\ pc = "walk"
    /\ HasItem
    /\ Item.kind = "file"
    /\ Item.readable
    /\ splitext(Item.name)[2] = <<".", "rbxmx">>
    /\ ~Item.doc.wellformed
    /\ visited' = Append(visited, Item)
    /\ error' = "ParseError"
    /\ stack' = Advance(stack)
    /\ UNCHANGED <<pc, proc, elems, tree, reads, run, previous>>
    /\ UNCHANGED scriptVars
    /\ UNCHANGED compileVars

\* A .rbxmx file that does not parse: ElementTree.XML raises.
WalkModelMalformed ==
    /\ pc = "walk"
    /\ HasItem
    /\ Item.kind = "file"
    /\ Item.readable
    /\ splitext(Item.name)[2] = <<".", "rbxmx">>
    /\ ~Item.doc.wellformed
    /\ visited' = Append(visited, Item)
    /\ pc' = "raised"
    /\ error' = "ParseError"
    /\ UNCHANGED <<proc, stack, elems, tree, reads, run, previous>>
    /\ UNCHANGED scriptVars
    /\ UNCHANGED compileVars

\* A file that cannot be read: open() or read() raises.
WalkUnreadable ==
    /\ pc = "walk"
    /\ HasItem
    /\ Item.kind = "file"
    /\ ~Item.readable
    /\ visited' = Append(visited, Item)
    /\ pc' = "raised"
    /\ error' = "OSError"
    /\ UNCHANGED <<proc, stack, elems, tree, reads, run, previous>>
    /\ UNCHANGED scriptVars
    /\ UNCHANGED compileVars

\* A file of any other extension: _get_element falls off its end and
\* returns None, and `element.element` raises.
WalkOther ==
    /\ pc = "walk"
    /\ HasItem
    /\ Item.kind = "file"
    /\ Item.readable
    /\ splitext(Item.name)[2] \notin {<<".", "lua">>, <<".", "rbxmx">>}
    /\ visited' = Append(visited, Item)
    /\ pc' = "raised"
    /\ error' = "AttributeError"
    /\ UNCHANGED <<proc, stack, elems, tree, reads, run, previous>>
    /\ UNCHANGED scriptVars
    /\ UNCHANGED compileVars

\* The loop of one recurse() ends: back to the caller, or out of the walk.
WalkReturn ==
    /\ pc = "walk"
    /\ stack # <<>>
    /\ ~HasItem
    /\ stack' = SubSeq(stack, 1, Len(stack) - 1)
    /\ pc' = IF Len(stack) = 1 THEN "returned" ELSE "walk"
    /\ UNCHANGED <<proc, elems, visited, error, tree, reads, run, previous>>
    /\ UNCHANGED scriptVars
    /\ UNCHANGED compileVars

\* _write_model after _create_model has returned: tree.write(f).
WriteModel ==
    /\ pc = "returned"
    /\ dest' = Document(elems)
    /\ pc' = "written"
    /\ UNCHANGED <<proc, error, destBefore, destDir, listing>>
    /\ UNCHANGED scriptVars
    /\ UNCHANGED walkVars

\* compile() once more, on the same compiler and the same tree, up to the
\* call of recurse: the destination is opened and cut to nothing, and the
\* walk starts from a new root.  self.processor is the one made in __init__.
Recompile ==
    /\ run = 1
    /\ pc \in {"raised", "written"}
    /\ previous' = [proc |-> proc, error |-> error, dest |-> dest]
    /\ run' = 2
    /\ dest' = <<>>
    /\ error' = "none"
    /\ stack' = <<Frame(0, tree[1])>>
    /\ reads' = 1
    /\ elems' = NewRoot(elems)
    /\ visited' = <<>>
    /\ pc' = "walk"
    /\ UNCHANGED <<proc, tree, destBefore, destDir, listing>>
    /\ UNCHANGED scriptVars

\* ModelCompiler(source, dest, processor).compile() on the same tree with
\* the other processor, up to the call of recurse: __init__ keeps the
\* processor it is given, and the walk starts as any other.
CompileOther ==
    /\ run = 1
    /\ pc \in {"raised", "written"}
    /\ previous' = [proc |-> proc, error |-> error, dest |-> dest]
    /\ proc' \in Processors \ {proc}
    /\ run' = 2
    /\ dest' = <<>>
    /\ error' = "none"
    /\ stack' = <<Frame(0, tree[1])>>
    /\ reads' = 1
    /\ elems' = NewRoot(elems)
    /\ visited' = <<>>
    /\ pc' = "walk"
    /\ UNCHANGED <<tree, destBefore, destDir, listing>>
    /\ UNCHANGED scriptVars

NextWalk ==
    \/ WalkFolder
    \/ WalkScript
    \/ WalkModel
    \/ WalkModelMalformed
    \/ WalkUnreadable
    \/ WalkOther
    \/ WalkReturn
    \/ WriteModel
    \/ Recompile
    \/ CompileOther

\* recurse(path, root_xml), entered with an element for root_xml, the
\* writing of the document, and the same once more, with the same
\* processor or the other one.
SpecWalk == InitWalk /\ [][NextWalk]_vars

-----------------------------------------------------------------------------
(* compilers.py: ModelCompiler.compile()                                   *)

\* The contents a destination file may have before the call.
OldContents == {Absent, <<>>, <<"old">>}

InitCompile ==
    /\ pc = "compile"
    /\ proc \in Processors
    /\ listing \in Listings(MaxEntries)
    /\ dest \in OldContents
    /\ destBefore = dest
    /\ destDir \in BOOLEAN
    /\ (dest # Absent => destDir)
    /\ error = "none"
    /\ ScriptIdle
    /\ WalkIdle

\* BaseCompiler.compile(): create_path(self.dest)
CreatePath ==
    /\ pc = "compile"
    /\ destDir' = TRUE
    /\ pc' = "write_model"
    /\ UNCHANGED <<proc, error, dest, destBefore, listing>>
    /\ UNCHANGED scriptVars
    /\ UNCHANGED walkVars

\* _write_model: open(self.dest, "wb+") creates the file or cuts it to
\* nothing, before the model is made.
OpenDest ==
    /\ pc = "write_model"
    /\ dest' = <<>>
    /\ pc' = "create_model"
    /\ UNCHANGED <<proc, error, destBefore, destDir, listing>>
    /\ UNCHANGED scriptVars
    /\ UNCHANGED walkVars

\* _create_model -> _create_hierarchy: `rbxmx.get_base_tag()` names a
\* function rbxmx does not have (it has get_roblox_tag): AttributeError, and
\* the `with` block closes the file on the way out.
CreateHierarchy ==
    /\ pc = "create_model"
    /\ pc' = "raised"
    /\ error' = "AttributeError"
    /\ UNCHANGED <<proc, dest, destBefore, destDir, listing>>
    /\ UNCHANGED scriptVars
    /\ UNCHANGED walkVars

NextCompile ==
    \/ CreatePath
    \/ OpenDest
    \/ CreateHierarchy

SpecCompile == InitCompile /\ [][NextCompile]_vars


-----------------------------------------------------------------------------
(* What the claims speak of                                                *)

Last(q) == q[Len(q)]
Range(q) == {q[i] : i \in 1..Len(q)}

Extension(e) == splitext(e.name)[2]
IsScriptFile(e) == e.kind = "file" /\ Extension(e) = <<".", "lua">>
IsModelFile(e) == e.kind = "file" /\ Extension(e) = <<".", "rbxmx">>
IsOtherFile(e) == e.kind = "file" /\ ~IsScriptFile(e) /\ ~IsModelFile(e)

\* s without the spaces and line breaks at its two ends.
RECURSIVE Strip(_)
Strip(s) ==
    IF s = <<>> THEN s
    ELSE IF IsSpace(s[1]) THEN Strip(Tail(s))
    ELSE IF IsSpace(s[Len(s)]) THEN Strip(SubSeq(s, 1, Len(s) - 1))
    ELSE s

\* A Lua expression of the alphabet of SpecModule: a name, or a table
\* constructor, which may run over several lines.
IsExpression(e) ==
    \/ e = <<"x">>
    \/ /\ Len(e) >= 2
       /\ e[1] = "{"
       /\ e[Len(e)] = "}"
       /\ \A i \in 2..(Len(e) - 1) : e[i] \in {"x", SP, NL}

\* From position i of s on, to the end of s: `return`, space, an expression,
\* and nothing but space after it.
ReturnsExpressionAt(s, i) ==
    /\ s[i] = "return"
    /\ i < Len(s)
    /\ IsSpace(s[i + 1])
    /\ IsExpression(Strip(SubSeq(s, i + 1, Len(s))))

\* The last statement of s is `return <expression>`, standing at the start
\* of the text or after space.
EndsWithReturnStatement(s) ==
    \E i \in 1..Len(s) :
        /\ i = 1 \/ IsSpace(s[i - 1])
        /\ ReturnsExpressionAt(s, i)

\* The comment lines a source begins with.
RECURSIVE LeadingComments(_)
LeadingComments(lines) ==
    IF lines = <<>> THEN <<>>
    ELSE IF is_lua_comment(lines[1])
         THEN <<lines[1]>> \o LeadingComments(Tail(lines))
         ELSE <<>>

\* The key of a comment line of the form `-- key: ...`, or <<>>.
KeyOf(line) ==
    IF Len(line) >= 5 /\ IsWord(line[4]) /\ line[5] = ":" THEN <<line[4]>>
    ELSE <<>>

\* The text of a comment line after its colon.
ValueOf(line) == SubSeq(line, 6, Len(line))

\* The first maximal run of comment lines of lines[i..]: the lines before
\* its first comment line are passed over, and the run ends before the
\* first line after it that is no comment line.
RECURSIVE FirstRun(_)
FirstRun(lines) ==
    IF lines = <<>> THEN <<>>
    ELSE IF is_lua_comment(lines[1]) THEN LeadingComments(lines)
    ELSE FirstRun(Tail(lines))

\* The properties of props called name, as indices, and the last of them.
Named(props, name) == {i \in 1..Len(props) : props[i].name = name}
Later(props, name) ==
    CHOOSE i \in Named(props, name) : \A j \in Named(props, name) : j <= i

\* A step of add, get or set: the call is in last', and no other step of
\* SpecElement leaves an element built with its calls as they were.
PropertyCall(op) ==
    /\ pc = "built"
    /\ calls' = calls
    /\ last'.op = op

\* The overrides d without those whose key names no property of el.
RECURSIVE KnownOnly(_, _)
KnownOnly(el, d) ==
    IF d = <<>> THEN <<>>
    ELSE IF d[1].name = Str("ClassName") \/ Named(el.props, d[1].name) # {}
         THEN <<d[1]>> \o KnownOnly(el, Tail(d))
         ELSE KnownOnly(el, Tail(d))

\* The element x as a child of element h.
Under(h, x) ==
    [parent |-> h, tag |-> x.tag, class |-> x.class, props |-> x.props,
     nested |-> x.nested]

\* What the entry e of a directory gives to the directory's element h under
\* the processor p: a Container, a script, or a model's children.
Results(e, h, p) ==
    IF e.kind = "dir"
    THEN <<Under(h, [tag |-> "Item", nested |-> 0,
                     class |-> process_folder(splitext(e.name)[1]).class,
                     props |-> process_folder(splitext(e.name)[1]).props])>>
    ELSE IF IsScriptFile(e)
    THEN <<Under(h, [tag |-> "Item", nested |-> 0,
                     class |-> process_script(p, splitext(e.name)[1], e.text).class,
                     props |-> process_script(p, splitext(e.name)[1], e.text).props])>>
    ELSE [i \in 1..Len(e.doc.children) |-> Under(h, e.doc.children[i])]

\* The walk takes an entry and goes on.
TakesEntry == pc = "walk" /\ HasItem /\ pc' = "walk" /\ visited' = Append(visited, Item)

\* The number of entries in the listings ls.
RECURSIVE Entries(_)
Entries(ls) == IF ls = <<>> THEN 0 ELSE Len(ls[1]) + Entries(Tail(ls))

\* The walk has returned from its outermost call with every entry of every
\* listing taken once, and with one listing asked for per directory taken,
\* besides the root's.
VisitedAllOnce ==
    /\ pc \in {"returned", "written"}
    /\ Len(visited) = Entries(tree)
    /\ reads = Len(tree)
    /\ reads = 1 + Cardinality({i \in 1..Len(visited) : visited[i].kind = "dir"})

\* The walk has ended in one of the errors that are to end it: a model that
\* does not parse, a file that cannot be read.
EndedFatally == pc = "raised" /\ error \in {"ParseError", "OSError"}

\* A number every step of the two compiles lowers: the second compile counts
\* less than any state of the first, and within a compile each entry still
\* to take counts two, each listing under way one, and the calls still to
\* return from (recurse, then _write_model) one each.
Variant ==
    (IF run = 1 THEN 4 * MaxEntries + 8 ELSE 0)
    + 2 * (MaxEntries - Len(visited))
    + Len(stack)
    + (CASE pc = "walk" -> 2 [] pc = "returned" -> 1 [] OTHER -> 0)

IsScriptClass(c) == c \in {Str("Script"), Str("LocalScript"), Str("ModuleScript")}

\* The elements a and b are the same but for the value of Disabled, which
\* may differ where both are scripts.
SameButDisabled(a, b) ==
    /\ a.parent = b.parent
    /\ a.tag = b.tag
    /\ a.class = b.class
    /\ a.nested = b.nested
    /\ Len(a.props) = Len(b.props)
    /\ \A i \in 1..Len(a.props) :
          /\ a.props[i].tag = b.props[i].tag
          /\ a.props[i].name = b.props[i].name
          /\ \/ a.props[i].text = b.props[i].text
             \/ /\ a.props[i].name = Str("Disabled")
                /\ a.tag = "Item"
                /\ IsScriptClass(a.class)

\* The documents d and e are both none, or hold the same tree but for the
\* Disabled values of scripts.
SameTrees(d, e) ==
    /\ Len(d) = Len(e)
    /\ \A k \in 1..Len(d) :
          /\ d[k].root = e[k].root
          /\ Len(d[k].children) = Len(e[k].children)
          /\ \A i \in 1..Len(d[k].children) :
                SameButDisabled(d[k].children[i], e[k].children[i])

\* The element e is one of the children of the models of EntrySet.  The
\* walk makes no such element itself: its Folders are named after
\* directories and its scripts have Name first.
IsSpliced(e) ==
    \E kid \in {ModelItem, ModelExternal, ModelScript} : e = Under(e.parent, kid)

\* The walk takes a model file that parses.
TakesModel ==
    /\ pc = "walk" /\ HasItem
    /\ IsModelFile(Item) /\ Item.readable /\ Item.doc.wellformed

NameLine == Comment(<<"Name", ":", SP, "N">>)
ClassNameLine == Comment(<<"ClassName", ":", SP, "LocalScript">>)

\* A source tree of directories, readable scripts and well-formed models.
WellFormedEntry(e) ==
    \/ e.kind = "dir"
    \/ IsScriptFile(e) /\ e.readable
    \/ IsModelFile(e) /\ e.readable /\ e.doc.wellformed

-----------------------------------------------------------------------------
(* The claims                                                              *)

\* C1: when the walk meets a file whose extension is neither .lua nor
\* .rbxmx, it adds no child for it, raises no error and goes on to the
\* remaining entries of the directory.  Stated on the state after the walk
\* took such a file: no error has ended the walk there.
C1_UnknownExtensionSkipped ==
    (visited # <<>> /\ IsOtherFile(Last(visited)) /\ Last(visited).readable)
        => (pc # "raised" /\ error = "none")

\* C2: when the walk takes a model file whose root has k children, exactly
\* those k elements are appended to the current parent's children, in their
\* order and after the children earlier entries produced; nothing else is
\* appended or changed, and no element stands for the model's own root.
C2_ModelSpliced ==
    [][(pc = "walk" /\ HasItem /\ IsModelFile(Item) /\ Item.readable
            /\ Item.doc.wellformed)
        => LET h == Top.hierarchy
               kids == Item.doc.children
           IN  /\ ChildrenOf(elems', h) =
                     ChildrenOf(elems, h)
                         \o [i \in 1..Len(kids) |-> Child(h, kids[i])]
               /\ Len(elems') = Len(elems) + Len(kids)
               /\ SubSeq(elems', 1, Len(elems)) = elems
               /\ \A i \in 1..Len(elems') : elems'[i].tag # "roblox"]_vars

\* C2, witnessed: inside a subdirectory, after a script, the walk has just
\* spliced the three children of m.rbxmx.
C2_Witness ==
    /\ pc = "walk"
    /\ Len(visited) >= 3
    /\ Last(visited).doc.children = <<ModelItem, ModelExternal, ModelScript>>
    /\ IsScriptFile(visited[Len(visited) - 1])
    /\ Len(stack) = 2
    /\ Len(elems) >= 5
    /\ elems[Len(elems) - 2] = Child(Top.hierarchy, ModelItem)
    /\ elems[Len(elems) - 1] = Child(Top.hierarchy, ModelExternal)
    /\ elems[Len(elems)] = Child(Top.hierarchy, ModelScript)
    /\ Top.hierarchy # 0

\* C3: compile() does not create, truncate or write the destination file
\* until the hierarchy has been built; if building fails the file is as it
\* was before the call.  In none of these states has the hierarchy been
\* built.
C3_DestUntouchedUntilBuilt ==
    pc \in {"compile", "write_model", "create_model", "raised"}
        => dest = destBefore

\* C4: on a tree of directories, scripts and well-formed models compile()
\* runs to completion and writes the document; it does not end in an error.
C4_CompileCompletes ==
    (\A i \in 1..Len(listing) : WellFormedEntry(listing[i])) => pc # "raised"

\* C5: for a source that begins with a comment block holding `-- Name: N`
\* and/or `-- ClassName: C`, process_script returns Name = N and class C,
\* whatever the name passed in and the class the heuristic chose; a key
\* absent from the block leaves its default.
C5_EmbeddedOverride ==
    (pc = "processed" /\ calls = 0
        /\ LeadingComments(splitlines(content)) # <<>>)
        => LET block == LeadingComments(splitlines(content))
               keys == {KeyOf(block[i]) : i \in 1..Len(block)}
           IN  /\ NameLine \in Range(block)
                     => PropText(script, "Name") = Str("N")
               /\ ClassNameLine \in Range(block)
                     => script.class = Str("LocalScript")
               /\ Str("Name") \notin keys
                     => PropText(script, "Name") = fname
               /\ Str("ClassName") \notin keys
                     => script.class = get_script_type(content)

\* C6: for a source whose first line is no comment line, no override is
\* applied, whatever lines come later: Name is the name passed in and the
\* class is the heuristic's.
C6_NoLeadingCommentNoOverride ==
    (pc = "processed" /\ calls = 0
        /\ LeadingComments(splitlines(content)) = <<>>)
        => /\ PropText(script, "Name") = fname
           /\ script.class = get_script_type(content)

\* C7: in every state of a ScriptElement the text of Disabled is "true" or
\* "false".
C7_DisabledIsBool ==
    script # NoScript
        => PropText(script, "Disabled") \in {Str("true"), Str("false")}

\* C8: every text whose trailing content is `return <expression>`, with any
\* space or line breaks after it, is a ModuleScript.
C8_ReturnIsModule ==
    (pc = "returned" /\ EndsWithReturnStatement(content))
        => stype = Str("ModuleScript")

\* C9: every text that does not end with `return <expression>` is a Script,
\* also when `return` stands elsewhere in it or has no expression.
C9_OtherwiseScript ==
    (pc = "returned"
        /\ ~\E i \in 1..Len(content) : ReturnsExpressionAt(content, i))
        => stype = Str("Script")

\* C10: NevermoreProcessor.process_script with the loader's name returns an
\* enabled script whose class is the one BaseProcessor gives.
C10_LoaderEnabled ==
    (pc = "processed" /\ calls = 0 /\ proc = "Nevermore" /\ fname = EngineLoader)
        => /\ PropText(script, "Disabled") = Str("false")
           /\ script.class = BaseProcessor_process_script(fname, content).class

\* C11: for any name other than the loader's and any source,
\* NevermoreProcessor.process_script returns a script whose Disabled is
\* "true".
C11_OthersDisabled ==
    (pc = "processed" /\ calls = 0 /\ proc = "Nevermore" /\ fname # EngineLoader)
        => PropText(script, "Disabled") = Str("true")

\* C12: NevermoreProcessor.process_script gives every script that is neither
\* the loader nor named with the designated substring the class ModuleScript,
\* whatever the heuristic or an embedded ClassName said.  processors.py
\* designates no substring, so every name but the loader's is such a name.
C12_OthersCoercedToModule ==
    (pc = "processed" /\ calls = 0 /\ proc = "Nevermore" /\ fname # EngineLoader)
        => script.class = Str("ModuleScript")

\* C16: process_script returns a script whose Source is the full source it
\* was given, unchanged, whatever embedded properties the source declares.
C16_SourceVerbatim ==
    (pc = "processed" /\ calls = 0) => PropText(script, "Source") = content

\* C17: every override get_embedded_properties returns comes from one line
\* of the comment block: its key is the word before the colon of that line
\* and its value is the rest of that line, trimmed.  A block line that is
\* not `key: value` gives no override.
C17_OverrideFromOneLine ==
    (pc = "built" /\ calls = 0)
        => LET block == FirstRun(splitlines(content))
               properties == get_embedded_properties(script)
           IN  \A i \in 1..Len(properties) :
                   \E k \in 1..Len(block) :
                       /\ KeyOf(block[k]) = properties[i].name
                       /\ Strip(ValueOf(block[k])) = properties[i].value
                       /\ properties[i].value # <<>>

\* C18: get_first_comment returns exactly the first maximal run of
\* contiguous comment lines, joined by line breaks (None when the source has
\* no comment line), and the overrides are those of that run alone: no line
\* after the run is added to the block or contributes an override.
C18_FirstRunOnly ==
    (pc = "built" /\ calls = 0)
        => LET block == FirstRun(splitlines(content))
           IN  /\ get_first_comment(script) =
                     (IF block = <<>> THEN None ELSE Join(block, <<NL>>))
               /\ get_embedded_properties(script) =
                     (IF block = <<>> THEN <<>>
                      ELSE FindProperties(Join(block, <<NL>>), 1, <<>>))

\* C18, witnessed: a comment line, a line that is none, then `-- Name: N`;
\* the block is the first line alone and Name is no override.
C18_Witness ==
    /\ pc = "built"
    /\ calls = 0
    /\ LET lines == splitlines(content)
       IN  /\ Len(lines) = 3
           /\ lines[1] = Comment(<<"Disabled", ":", SP, "true">>)
           /\ ~is_lua_comment(lines[2])
           /\ lines[3] = NameLine
           /\ get_first_comment(script) = lines[1]
           /\ get_embedded_properties(script) =
                 <<[name |-> Str("Disabled"), value |-> Str("true")]>>

\* C13: once two properties of one name have been added, get(name) returns
\* the later of them, and set(name, value) changes the text of the later
\* one and nothing else.
C13_LaterWins ==
    [][/\ (PropertyCall("get") /\ Cardinality(Named(script.props, last'.name)) >= 2)
            => last'.result = Later(script.props, last'.name)
       /\ (PropertyCall("set") /\ Cardinality(Named(script.props, last'.name)) >= 2)
            => script'.props =
                  [script.props EXCEPT
                      ![Later(script.props, last'.name)].text = last'.value]]_vars

\* C14: set(name, value) with a name no property of the element has changes
\* nothing and raises nothing, and so does an embedded key that names no
\* property: use_embedded_properties does what it does without such keys.
C14_SetUnknownIsNoOp ==
    [][/\ (PropertyCall("set") /\ Named(script.props, last'.name) = {})
            => /\ script' = script
               /\ pc' = "built"
               /\ error' = "none"
       /\ (calls' = calls + 1)
            => /\ script' = ApplyProperties(script,
                       KnownOnly(script, get_embedded_properties(script)), 1)
               /\ error' = "none"]_vars

\* C15: an element built without a name has its class tag as the text of
\* Name; built with a name, it has that name.
C15_NameDefaultsToClass ==
    (pc = "built" /\ calls = 0 /\ last = NoCall)
        => PropText(script, "Name") =
              (IF fname = None THEN script.class ELSE fname)

\* C19: when a model file met during the walk cannot be parsed, the compile
\* ends in that error there: the file is the last entry taken, nothing is
\* appended for it, and no document is written.
C19_MalformedModelAborts ==
    /\ error = "ParseError"
          => /\ pc = "raised"
             /\ IsModelFile(Last(visited)) /\ ~Last(visited).doc.wellformed
             /\ dest = <<>>
    /\ (visited # <<>> /\ IsModelFile(Last(visited))
            /\ ~Last(visited).doc.wellformed)
          => error = "ParseError"

\* C19, witnessed: a script was taken and appended, then bad.rbxmx with
\* entries still to come in its directory; the walk has ended in the error
\* and the destination is empty.
C19_Witness ==
    /\ pc = "raised"
    /\ error = "ParseError"
    /\ Len(visited) >= 2
    /\ IsScriptFile(visited[Len(visited) - 1])
    /\ Len(elems) >= 1
    /\ Top.i < Len(Top.items)
    /\ dest = <<>>

\* C20: a second compile of the same tree, with os.listdir returning what it
\* returned before and the same processor, ends as the first did: the same
\* document in the destination, or the same error.
C20_SecondRunSame ==
    (run = 2 /\ pc \in {"raised", "written"} /\ previous.proc = proc)
        => previous = [proc |-> proc, error |-> error, dest |-> dest]

\* C20, witnessed: both compiles have written a document that holds a
\* directory with a script in it.
C20_Witness ==
    /\ run = 2
    /\ pc = "written"
    /\ previous.proc = proc
    /\ previous.dest = dest
    /\ \E i, j \in 1..Len(elems) :
          /\ elems[i].class = Str("Folder")
          /\ elems[j].parent = i
          /\ elems[j].class \in {Str("Script"), Str("ModuleScript")}
    /\ dest = Document(elems)

\* C21: for every subdirectory, whatever its name, the walk appends a
\* Container of class Folder whose Name is the directory's name.
C21_FolderNamedAsDirectory ==
    (visited # <<>> /\ Last(visited).kind = "dir")
        => /\ Last(elems).tag = "Item"
           /\ Last(elems).class = Str("Folder")
           /\ PropText(Last(elems), "Name") = Last(visited).name

\* C22: the walk is depth first and the output mirrors the source.  Every
\* entry taken gives its results to the element of the directory it is
\* listed in, after the results of the entries before it; a subdirectory's
\* Container is appended before its entries are taken, and its entries are
\* taken next, beneath that Container; the directories under way are each
\* the child of the one that lists it.
C22_TreeMirrorsSource ==
    [][/\ stack # <<>> => stack[1].hierarchy = 0
       /\ \A k \in 2..Len(stack) :
             /\ stack[k].hierarchy \in 1..Len(elems)
             /\ elems[stack[k].hierarchy].parent = stack[k - 1].hierarchy
             /\ elems[stack[k].hierarchy].class = Str("Folder")
       /\ TakesEntry
            => LET h == Top.hierarchy
                   d == Len(stack)
               IN  /\ elems' = elems \o Results(Item, h, proc)
                   /\ stack'[d] = [Top EXCEPT !.i = @ + 1]
                   /\ SubSeq(stack', 1, d - 1) = SubSeq(stack, 1, d - 1)
                   /\ IF Item.kind = "dir"
                      THEN /\ Len(stack') = d + 1
                           /\ stack'[d + 1].hierarchy = Len(elems) + 1
                           /\ stack'[d + 1].i = 1
                      ELSE Len(stack') = d]_vars

\* C22, witnessed: a script two directories deep has been appended to the
\* inner directory's Container, which hangs on the outer one's.
C22_Witness ==
    /\ pc = "walk"
    /\ Len(stack) = 3
    /\ Len(elems) = 3
    /\ IsScriptFile(Last(visited))
    /\ elems[1].parent = 0
    /\ elems[2].parent = 1
    /\ elems[3].parent = 2
    /\ elems[3].class \in {Str("Script"), Str("ModuleScript")}

\* C23: on every finite tree the walk terminates having taken every entry
\* exactly once, and it opens a listing for directories only; the one other
\* way it may end is a fatal error, on a malformed model or an unreadable
\* file.
C23_WalkTerminates ==
    [][/\ Variant' < Variant
       /\ Variant' >= 0
       /\ pc' \in {"returned", "written", "raised"}
            => (VisitedAllOnce \/ EndedFatally)']_vars

\* C24: a ScriptElement, when built and after any number of
\* use_embedded_properties calls, has exactly the properties Name (string),
\* Source (ProtectedString) and Disabled (bool), once each and in that order.
C24_ThreeProperties ==
    script # NoScript
        => [i \in 1..Len(script.props) |->
               <<script.props[i].tag, script.props[i].name>>]
           = << <<"string", Str("Name")>>,
                <<"ProtectedString", Str("Source")>>,
                <<"bool", Str("Disabled")>> >>

\* C24, witnessed: after two calls on a source whose block names Name and a
\* key that is no property, Name has been overridden and the three
\* properties stand as built.
C24_Witness ==
    /\ pc = "built"
    /\ calls = 2
    /\ content = Join(<<NameLine, Comment(<<"Foo", ":">>), ClassNameLine>>,
                      <<NL>>)
    /\ PropText(script, "Name") = Str("N")
    /\ get_embedded_properties(script) =
          <<[name |-> Str("Name"), value |-> Str("N")],
            [name |-> Str("Foo"), value |-> ClassNameLine]>>
    /\ Len(script.props) = 3

\* C25: compiling the same tree, os.listdir returning the same, with the
\* base processor and with the Nevermore one ends the same way, and the two
\* documents have the same elements under the same parents with the same
\* class tags and property values, but for the Disabled values of scripts.
C25_ProcessorsDifferInDisabled ==
    (run = 2 /\ pc \in {"raised", "written"} /\ previous.proc # proc)
        => /\ previous.error = error
           /\ SameTrees(previous.dest, dest)

\* C25, witnessed: both processors have written a document that holds a
\* ModuleScript and, in a directory, a Script that one of them disabled.
C25_Witness ==
    /\ run = 2
    /\ pc = "written"
    /\ previous.proc # proc
    /\ dest = Document(elems)
    /\ previous.dest # dest
    /\ \E i, j \in 1..Len(elems) :
          /\ elems[i].class = Str("ModuleScript")
          /\ elems[j].class = Str("Script")
          /\ elems[j].parent # 0
          /\ PropText(elems[j], "Disabled")
                # PropText(previous.dest[1].children[j], "Disabled")

\* C26: use_embedded_properties is idempotent: a call after the first one,
\* on the same ScriptElement with nothing done to it in between, leaves the
\* class tag and every property as they were.  The first call is the one
\* made on the element as built, or the one BaseProcessor.process_script
\* ends with.
C26_SecondCallChangesNothing ==
    [][(calls' = calls + 1
          /\ (calls >= 1 \/ (pc = "processed" /\ proc = "Base")))
          => script' = script]_vars

\* C27: the elements of a model file go into the tree as they are, under
\* either processor: the step that takes the model appends its children
\* with the class tag, properties and descendants they have in the file; no
\* step of a walk changes an element appended before; and no element is
\* appended beneath a spliced element, nor is one the parent at hand of a
\* directory under way.
C27_SplicedUntouched ==
    [][/\ TakesModel
            => SubSeq(elems', Len(elems) + 1, Len(elems'))
                  = [i \in 1..Len(Item.doc.children) |->
                        Under(Top.hierarchy, Item.doc.children[i])]
       /\ run' = run
            => /\ Len(elems') >= Len(elems)
               /\ SubSeq(elems', 1, Len(elems)) = elems
       /\ \A i \in 1..Len(elems') :
             elems'[i].parent # 0 => ~IsSpliced(elems'[elems'[i].parent])
       /\ \A k \in 1..Len(stack') :
             stack'[k].hierarchy # 0 => ~IsSpliced(elems'[stack'[k].hierarchy])
      ]_vars

\* C27, witnessed: under the Nevermore processor a model was spliced into
\* a directory and a script of that directory taken after it; the model's
\* script stands as in the file, enabled and with the Name it had, and the
\* later script is a child of the directory's Container.
C27_Witness ==
    /\ proc = "Nevermore"
    /\ pc = "walk"
    /\ Len(stack) = 2
    /\ Len(elems) = 5
    /\ elems[1].class = Str("Folder")
    /\ elems[2] = Under(1, ModelItem)
    /\ elems[3] = Under(1, ModelExternal)
    /\ elems[4] = Under(1, ModelScript)
    /\ PropText(elems[4], "Disabled") = Str("false")
    /\ PropText(elems[4], "Name") = Str("Script")
    /\ IsScriptFile(Last(visited))
    /\ elems[5].parent = 1
    /\ PropText(elems[5], "Disabled") = Str("true")

\* C28: NevermoreProcessor disables after the embedded overrides, by the
\* name it was given and the class tag the element ends with: a script not
\* named as the loader whose class tag is not ModuleScript ends with
\* Disabled "true", whatever its comment block declares.
C28_DisabledAfterOverrides ==
    (/\ pc = "processed" /\ calls = 0 /\ proc = "Nevermore"
     /\ fname # EngineLoader
     /\ script.class # Str("ModuleScript"))
        => PropText(script, "Disabled") = Str("true")

\* C28, witnessed: a source that returns a value, so a module by its text,
\* whose block makes it a LocalScript and declares Disabled "yes"; it ends
\* as a LocalScript with Disabled "true".
C28_Witness ==
    /\ pc = "processed" /\ calls = 0 /\ proc = "Nevermore"
    /\ fname = Str("f")
    /\ content = Join(<<ClassNameLine, Comment(<<"Disabled", ":", SP, "yes">>),
                        <<"return", SP, "x">>>>, <<NL>>)
    /\ get_script_type(content) = Str("ModuleScript")
    /\ script.class = Str("LocalScript")
    /\ PropText(script, "Disabled") = Str("true")

=============================================================================
